---- MODULE Spec2Model ----
(***************************************************************************)
(* The round-based accounting engine (accounting/accounting.go), the       *)
(* storage commit protocol and transaction cursor (idb/postgres.go) and    *)
(* the import/resume coordinator (updateAccounting) of the indexer.        *)
(***************************************************************************)
EXTENDS Integers, Sequences, FiniteSets, TLC

VARIABLES
    db,          \* committed (durably visible) tables: account, account_asset, asset, metastate
    tx,          \* the open SQL transaction of CommitRoundAccounting: its view of the tables
    txn,         \* table txn: rows (round, intra, txnbytes), ordered by (round, intra)
    block_header,\* table block_header: round -> header
    accounting,  \* the AccountingState of the running coordinator
    pc,          \* position of the coordinator process
    run,         \* locals of updateAccounting: cursor, currentRound, roundsSeen, flags
    call,        \* the CommitRoundAccounting call in progress
    hist,        \* history of the execution, read by the properties only
    cursor       \* a YieldTxns cursor: producer thread, channel and consumer

vars == <<db, tx, txn, block_header, accounting, pc, run, call, hist, cursor>>

----------------------------------------------------------------------------
(* Bounds of the model.                                                    *)

\* number of ledger rounds that ingestion has persisted before accounting runs
MaxRounds == 3
\* largest value of the --num-rounds-limit flag a run is started with
MaxLimit == 1
\* width of the unsigned integers of the model (asset ids are uint64 in the code)
IdBits == 3
\* number of transactions handed to an engine that is exercised on its own
MaxTxns == 2
\* number of CommitRoundAccounting calls made on a database exercised on its own
MaxCalls == 3

----------------------------------------------------------------------------
(* Values.                                                                 *)

zeroAddr == "zero"
FeeSink == "F"
RewardsPool == "P"

EmptyFn == [x \in {} |-> 0]

Upd(f, k, v) == [x \in (DOMAIN f) \cup {k} |-> IF x = k THEN v ELSE f[x]]

Del(f, S) == [x \in (DOMAIN f) \ S |-> f[x]]

Lookup(f, k, dflt) == IF k \in DOMAIN f THEN f[k] ELSE dflt

ZeroParams == [Total |-> 0, DefaultFrozen |-> FALSE, Manager |-> zeroAddr]

ParamsIsZero(p) == p = ZeroParams

\* a decoded types.SignedTxnInBlock with every field at its zero value
ZeroTxn ==
    [Type |-> "", Sender |-> zeroAddr, Fee |-> 0,
     Amount |-> 0, Receiver |-> zeroAddr, CloseRemainderTo |-> zeroAddr,
     ConfigAsset |-> 0, AssetParams |-> ZeroParams,
     XferAsset |-> 0, AssetAmount |-> 0, AssetSender |-> zeroAddr,
     AssetReceiver |-> zeroAddr, AssetCloseTo |-> zeroAddr,
     FreezeAccount |-> zeroAddr, FreezeAsset |-> 0, AssetFrozen |-> FALSE,
     SenderRewards |-> 0, ReceiverRewards |-> 0, CloseRewards |-> 0,
     ClosingAmount |-> 0]

\* txnbytes: msgpack bytes that decode to stxn, or bytes that do not decode
Bytes(stxn) == [valid |-> TRUE, stxn |-> stxn]

Garbage == [valid |-> FALSE, stxn |-> ZeroTxn]

\* a frozen column holds a boolean or, when an INSERT names no value for it, NULL
SqlBool(b) == IF b THEN "true" ELSE "false"

SqlNull == "null"

EmptyTables ==
    [account |-> EmptyFn, account_asset |-> EmptyFn, asset |-> EmptyFn,
     metastate |-> EmptyFn]

----------------------------------------------------------------------------
(* idb/postgres.go: the statements of CommitRoundAccounting, each as a     *)
(* function of the tables the transaction sees.                            *)

\* INSERT INTO account ... ON CONFLICT (addr) DO UPDATE SET microalgos = account.microalgos + EXCLUDED.microalgos, rewardsbase = EXCLUDED.rewardsbase
setalgo(t, addr, delta, rewardsBase) ==
    [t EXCEPT !.account =
        Upd(@, addr,
            [microalgos |-> Lookup(@, addr, [microalgos |-> 0]).microalgos + delta,
             rewardsbase |-> rewardsBase])]

\* the loop over updates.AlgoUpdates (one row per address, so the map's order is immaterial)
RECURSIVE ApplyAlgoUpdates(_, _, _, _)
ApplyAlgoUpdates(t, AlgoUpdates, todo, rewardsBase) ==
    IF todo = {} THEN t
    ELSE LET addr == CHOOSE a \in todo : TRUE
         IN ApplyAlgoUpdates(setalgo(t, addr, AlgoUpdates[addr], rewardsBase),
                             AlgoUpdates, todo \ {addr}, rewardsBase)

\* INSERT INTO asset ... ON CONFLICT (index) DO UPDATE SET params = EXCLUDED.params
setacfg(t, au) ==
    [t EXCEPT !.asset =
        IF au.AssetId \in DOMAIN @
        THEN [@ EXCEPT ![au.AssetId].params = au.Params]
        ELSE Upd(@, au.AssetId, [creator_addr |-> au.Creator, params |-> au.Params])]

\* the holding statement with frozen = EXCLUDED.frozen added to its DO UPDATE
setaSetsFrozen(t, au) ==
    LET k == <<au.Addr, au.AssetId>>
    IN [t EXCEPT !.account_asset =
            IF k \in DOMAIN @
            THEN [@ EXCEPT ![k] = [amount |-> @.amount + au.Delta,
                                   frozen |-> SqlBool(au.DefaultFrozen)]]
            ELSE Upd(@, k, [amount |-> au.Delta, frozen |-> SqlBool(au.DefaultFrozen)])]

\* INSERT INTO account_asset ... ON CONFLICT (addr, assetid) DO UPDATE SET amount = account_asset.amount + EXCLUDED.amount
seta(t, au) ==
    LET k == <<au.Addr, au.AssetId>>
    IN [t EXCEPT !.account_asset =
            IF k \in DOMAIN @
            THEN [@ EXCEPT ![k].amount = @ + au.Delta]
            ELSE Upd(@, k, [amount |-> au.Delta, frozen |-> SqlBool(au.DefaultFrozen)])]

\* INSERT INTO account_asset (.., amount, frozen) VALUES (.., 0, $3) ON CONFLICT (addr, assetid) DO UPDATE SET frozen = EXCLUDED.frozen
fr(t, fs) ==
    LET k == <<fs.Addr, fs.AssetId>>
    IN [t EXCEPT !.account_asset =
            IF k \in DOMAIN @
            THEN [@ EXCEPT ![k].frozen = SqlBool(fs.Frozen)]
            ELSE Upd(@, k, [amount |-> 0, frozen |-> SqlBool(fs.Frozen)])]

\* the rows the close statement's SELECT yields: FROM account_asset x WHERE x.addr = $3
acsSource(t, ac) == {k \in DOMAIN t.account_asset : k[1] = ac.Sender}

\* INSERT INTO account_asset (addr, assetid, amount) SELECT $1, $2, x.amount FROM account_asset x WHERE x.addr = $3
\* ON CONFLICT (addr, assetid) DO UPDATE SET amount = account_asset.amount + EXCLUDED.amount.
\* Every selected row is proposed for the one key ($1, $2): with two or more
\* of them the statement would affect that row a second time, which the
\* database rejects.
acsOk(t, ac) == Cardinality(acsSource(t, ac)) <= 1

acs(t, ac) ==
    LET src == acsSource(t, ac)
        k == <<ac.CloseTo, ac.AssetId>>
    IN IF src = {} THEN t
       ELSE LET x == CHOOSE s \in src : TRUE
                amount == t.account_asset[x].amount
            IN [t EXCEPT !.account_asset =
                    IF k \in DOMAIN @
                    THEN [@ EXCEPT ![k].amount = @ + amount]
                    ELSE Upd(@, k, [amount |-> amount, frozen |-> SqlNull])]

\* DELETE FROM account_asset WHERE addr = $1
acd(t, ac) ==
    [t EXCEPT !.account_asset = Del(@, {k \in DOMAIN @ : k[1] = ac.Sender})]

\* the destroy statement with no WHERE clause on the asset
adsEveryAsset(t, assetId) == [t EXCEPT !.account_asset = EmptyFn]

\* DELETE FROM account_asset WHERE assetid = $1
ads(t, assetId) ==
    [t EXCEPT !.account_asset = Del(@, {k \in DOMAIN @ : k[2] = assetId})]

\* the row written back as it was read, AccountRound not set to round
setstateAsRead(t, round) ==
    [t EXCEPT !.metastate = Upd(@, "state", Lookup(@, "state", [account_round |-> 0]))]

\* INSERT INTO metastate (k, v) VALUES ('state', $1) ON CONFLICT (k) DO UPDATE SET v = EXCLUDED.v
\* with istate read from the row and its AccountRound set to round
setstate(t, round) ==
    [t EXCEPT !.metastate =
        Upd(@, "state",
            [Lookup(@, "state", [account_round |-> 0]) EXCEPT !.account_round = round])]

RECURSIVE ApplyAcfgUpdates(_, _)
ApplyAcfgUpdates(t, us) ==
    IF us = <<>> THEN t ELSE ApplyAcfgUpdates(setacfg(t, Head(us)), Tail(us))

RECURSIVE ApplyAssetUpdates(_, _)
ApplyAssetUpdates(t, us) ==
    IF us = <<>> THEN t ELSE ApplyAssetUpdates(seta(t, Head(us)), Tail(us))

RECURSIVE ApplyFreezeUpdates(_, _)
ApplyFreezeUpdates(t, us) ==
    IF us = <<>> THEN t ELSE ApplyFreezeUpdates(fr(t, Head(us)), Tail(us))

\* the loop over updates.AssetCloses: [ok, t]; ok is FALSE when a statement was rejected
RECURSIVE ApplyAssetCloses(_, _)
ApplyAssetCloses(t, cs) ==
    IF cs = <<>> THEN [ok |-> TRUE, t |-> t]
    ELSE IF ~acsOk(t, Head(cs)) THEN [ok |-> FALSE, t |-> t]
    ELSE ApplyAssetCloses(acd(acs(t, Head(cs)), Head(cs)), Tail(cs))

\* the least unsigned value with the high bit set
HighBit == 2^(IdBits - 1)

\* Exec converts a uint64 argument to the driver's int64: a value with the
\* high bit set is refused with an error, and no statement is sent
Convertible(assetId) == assetId < HighBit

\* lines 333-338: the value ads.Exec returns is dropped, and the err that is
\* tested is the one of Prepare, so a refused Exec is passed over
RECURSIVE ApplyAssetDestroys(_, _)
ApplyAssetDestroys(t, ds) ==
    IF ds = <<>> THEN t
    ELSE ApplyAssetDestroys(IF Convertible(Head(ds)) THEN ads(t, Head(ds)) ELSE t,
                            Tail(ds))

\* any: whether one of the six parts of the batch is non-empty
BatchAny(u) ==
    \/ DOMAIN u.AlgoUpdates # {}
    \/ u.AcfgUpdates # <<>>
    \/ u.AssetUpdates # <<>>
    \/ u.FreezeUpdates # <<>>
    \/ u.AssetCloses # <<>>
    \/ u.AssetDestroys # <<>>

\* the watermark is written although no part of the batch was applied
ReturnsEarlyNever(any) == FALSE

\* line 340: if !any { return }
ReturnsEarly(any) == ~any

\* CommitRoundAccounting run to its end with no storage failure: [err, t].
\* An empty batch returns before the watermark is touched; a rejected close
\* statement returns an error and the deferred Rollback discards the rest.
CommitRoundAccounting(t, u, round, rewardsBase) ==
    LET t1 == ApplyAlgoUpdates(t, u.AlgoUpdates, DOMAIN u.AlgoUpdates, rewardsBase)
        t2 == ApplyAcfgUpdates(t1, u.AcfgUpdates)
        t3 == ApplyAssetUpdates(t2, u.AssetUpdates)
        t4 == ApplyFreezeUpdates(t3, u.FreezeUpdates)
        c5 == ApplyAssetCloses(t4, u.AssetCloses)
        t6 == ApplyAssetDestroys(c5.t, u.AssetDestroys)
    IN IF ReturnsEarly(BatchAny(u)) THEN [err |-> FALSE, t |-> t]
       ELSE IF ~c5.ok THEN [err |-> TRUE, t |-> t]
       ELSE [err |-> FALSE, t |-> setstate(t6, round)]

\* GetMetastate("state") and ParseImportState: the watermark, or "no row"
HasState(t) == "state" \in DOMAIN t.metastate

AccountRound(t) == t.metastate["state"].account_round

\* LoadGenesis: one INSERT INTO account per allocation, with no ON CONFLICT
\* clause, in one transaction: [err, t]
GenesisAlloc == [a \in {"A", "B"} |-> 10]

LoadGenesis(t) ==
    IF (DOMAIN GenesisAlloc) \cap (DOMAIN t.account) # {}
    THEN [err |-> TRUE, t |-> t]
    ELSE [err |-> FALSE,
          t |-> [t EXCEPT !.account =
                    [a \in (DOMAIN @) \cup (DOMAIN GenesisAlloc) |->
                        IF a \in DOMAIN GenesisAlloc
                        THEN [microalgos |-> GenesisAlloc[a], rewardsbase |-> 0]
                        ELSE @[a]]]]

\* the query with WHERE round >= $1
RoundAfterInclusive(row, prevRound) == row.Round >= prevRound

\* YieldTxns(prevRound): SELECT round, intra, txnbytes FROM txn WHERE round > $1 ORDER BY round, intra
RoundAfter(row, prevRound) == row.Round > prevRound

YieldTxns(rows, prevRound) ==
    SelectSeq(rows, LAMBDA row : RoundAfter(row, prevRound))

----------------------------------------------------------------------------
(* accounting/accounting.go                                                *)

EmptyBatch ==
    [AlgoUpdates |-> EmptyFn, AssetUpdates |-> <<>>, AcfgUpdates |-> <<>>,
     FreezeUpdates |-> <<>>, AssetCloses |-> <<>>, AssetDestroys |-> <<>>]

\* accounting.New: every field but db and defaultFrozen at its zero value
New ==
    [defaultFrozen |-> EmptyFn, currentRound |-> 0,
     AlgoUpdates |-> EmptyFn, AssetUpdates |-> <<>>, AcfgUpdates |-> <<>>,
     FreezeUpdates |-> <<>>, AssetCloses |-> <<>>, AssetDestroys |-> <<>>,
     feeAddr |-> zeroAddr, rewardAddr |-> zeroAddr, rewardsLevel |-> 0,
     txnCounter |-> 0]

\* the embedded idb.RoundUpdates, passed by value to CommitRoundAccounting
RoundUpdates(acc) ==
    [AlgoUpdates |-> acc.AlgoUpdates, AssetUpdates |-> acc.AssetUpdates,
     AcfgUpdates |-> acc.AcfgUpdates, FreezeUpdates |-> acc.FreezeUpdates,
     AssetCloses |-> acc.AssetCloses, AssetDestroys |-> acc.AssetDestroys]

\* initRound: [err, acc]; GetBlock fails when no header row exists for round
initRound(acc, headers, round) ==
    IF round \notin DOMAIN headers THEN [err |-> TRUE, acc |-> acc]
    ELSE [err |-> FALSE,
          acc |-> [acc EXCEPT !.feeAddr = headers[round].FeeSink,
                              !.rewardAddr = headers[round].RewardsPool,
                              !.rewardsLevel = headers[round].RewardsLevel,
                              !.currentRound = round]]

\* commitRound forgetting to reset the algo deltas
clearBatchKeepsAlgo(acc) ==
    [acc EXCEPT !.AssetUpdates = <<>>, !.AcfgUpdates = <<>>, !.FreezeUpdates = <<>>,
                !.AssetCloses = <<>>, !.AssetDestroys = <<>>]

\* commitRound after CommitRoundAccounting returned nil: the six parts set to nil
clearBatch(acc) ==
    [acc EXCEPT !.AlgoUpdates = EmptyFn, !.AssetUpdates = <<>>,
                !.AcfgUpdates = <<>>, !.FreezeUpdates = <<>>,
                !.AssetCloses = <<>>, !.AssetDestroys = <<>>]

updateAlgo(acc, addr, d) ==
    [acc EXCEPT !.AlgoUpdates = Upd(@, addr, Lookup(@, addr, 0) + d)]

updateAsset(acc, addr, assetId, d) ==
    [acc EXCEPT !.AssetUpdates =
        Append(@, [Addr |-> addr, AssetId |-> assetId, Delta |-> d,
                   DefaultFrozen |-> Lookup(acc.defaultFrozen, assetId, FALSE)])]

closeAsset(acc, from, assetId, to) ==
    [acc EXCEPT !.AssetCloses =
        Append(@, [CloseTo |-> to, AssetId |-> assetId, Sender |-> from])]

freezeAsset(acc, addr, assetId, frozen) ==
    [acc EXCEPT !.FreezeUpdates =
        Append(@, [Addr |-> addr, AssetId |-> assetId, Frozen |-> frozen])]

destroyAsset(acc, assetId) ==
    [acc EXCEPT !.AssetDestroys = Append(@, assetId)]

\* AddTransaction, lines 130-136: fee and sender rewards
\* the fee taken from the sender and credited to nobody
feeDeltasBurnsFee(acc, stxn) ==
    LET a2 == updateAlgo(acc, stxn.Sender, -stxn.Fee)
    IN IF stxn.SenderRewards # 0
       THEN updateAlgo(updateAlgo(a2, stxn.Sender, stxn.SenderRewards),
                       a2.rewardAddr, -stxn.SenderRewards)
       ELSE a2

feeDeltas(acc, stxn) ==
    LET a1 == updateAlgo(acc, stxn.Sender, -stxn.Fee)
        a2 == updateAlgo(a1, a1.feeAddr, stxn.Fee)
    IN IF stxn.SenderRewards # 0
       THEN updateAlgo(updateAlgo(a2, stxn.Sender, stxn.SenderRewards),
                       a2.rewardAddr, -stxn.SenderRewards)
       ELSE a2

\* AddTransaction, lines 138-155: "pay"
payDeltas(acc, stxn) ==
    LET a1 == IF stxn.Amount # 0
              THEN updateAlgo(updateAlgo(acc, stxn.Sender, -stxn.Amount),
                              stxn.Receiver, stxn.Amount)
              ELSE acc
        a2 == IF stxn.ClosingAmount # 0
              THEN updateAlgo(updateAlgo(a1, stxn.Sender, -stxn.ClosingAmount),
                              stxn.CloseRemainderTo, stxn.ClosingAmount)
              ELSE a1
        a3 == IF stxn.ReceiverRewards # 0
              THEN updateAlgo(updateAlgo(a2, stxn.Receiver, stxn.ReceiverRewards),
                              a2.rewardAddr, -stxn.ReceiverRewards)
              ELSE a2
    IN IF stxn.CloseRewards # 0
       THEN updateAlgo(updateAlgo(a3, stxn.CloseRemainderTo, stxn.CloseRewards),
                       a3.rewardAddr, -stxn.CloseRewards)
       ELSE a3

\* AddTransaction, lines 159-162: the asset ID an "acfg" transaction is about
acfgAssetId(acc, intra, stxn) ==
    IF stxn.ConfigAsset = 0 THEN acc.txnCounter + intra + 1 ELSE stxn.ConfigAsset

\* "acfg" with the holding delta built before the default-frozen flag is cached
acfgDeltasHoldingFirst(acc, intra, stxn) ==
    LET assetId == acfgAssetId(acc, intra, stxn)
    IN IF ParamsIsZero(stxn.AssetParams) THEN destroyAsset(acc, assetId)
       ELSE LET a1 == IF stxn.ConfigAsset = 0 /\ stxn.AssetParams.Total # 0
                      THEN updateAsset(acc, stxn.Sender, assetId, stxn.AssetParams.Total)
                      ELSE acc
            IN [a1 EXCEPT
                   !.AcfgUpdates =
                       Append(@, [AssetId |-> assetId, Creator |-> stxn.Sender,
                                  Params |-> stxn.AssetParams]),
                   !.defaultFrozen =
                       Upd(@, assetId, stxn.AssetParams.DefaultFrozen)]

\* AddTransaction, lines 158-174: "acfg"
acfgDeltas(acc, intra, stxn) ==
    LET assetId == acfgAssetId(acc, intra, stxn)
    IN IF ParamsIsZero(stxn.AssetParams) THEN destroyAsset(acc, assetId)
       ELSE LET a1 == [acc EXCEPT
                          !.AcfgUpdates =
                              Append(@, [AssetId |-> assetId, Creator |-> stxn.Sender,
                                         Params |-> stxn.AssetParams]),
                          !.defaultFrozen =
                              Upd(@, assetId, stxn.AssetParams.DefaultFrozen)]
            IN IF stxn.ConfigAsset = 0 /\ stxn.AssetParams.Total # 0
               THEN updateAsset(a1, stxn.Sender, assetId, stxn.AssetParams.Total)
               ELSE a1

\* the holding debit charged to the transaction sender whatever AssetSender is
axferSenderIgnoresClawback(stxn) == stxn.Sender

\* AddTransaction, lines 176-179: clawback sender if present, else the sender
axferSender(stxn) ==
    IF stxn.AssetSender = zeroAddr THEN stxn.Sender ELSE stxn.AssetSender

\* AddTransaction, lines 175-186: "axfer"
axferDeltas(acc, stxn) ==
    LET sender == axferSender(stxn)
        a1 == IF stxn.AssetAmount # 0
              THEN updateAsset(updateAsset(acc, sender, stxn.XferAsset, -stxn.AssetAmount),
                               stxn.AssetReceiver, stxn.XferAsset, stxn.AssetAmount)
              ELSE acc
    IN IF stxn.AssetCloseTo # zeroAddr
       THEN closeAsset(a1, sender, stxn.XferAsset, stxn.AssetCloseTo)
       ELSE a1

\* the transaction types AddTransaction handles
SupportedTypes == {"pay", "keyreg", "acfg", "axfer", "afrz"}

\* a transaction of an unknown type skipped after its fee, with no error
addDeltasSkipsUnknown(acc, intra, stxn) ==
    LET a == feeDeltas(acc, stxn)
    IN CASE stxn.Type = "pay" -> [err |-> FALSE, acc |-> payDeltas(a, stxn)]
         [] stxn.Type = "acfg" -> [err |-> FALSE, acc |-> acfgDeltas(a, intra, stxn)]
         [] stxn.Type = "axfer" -> [err |-> FALSE, acc |-> axferDeltas(a, stxn)]
         [] stxn.Type = "afrz" ->
                [err |-> FALSE,
                 acc |-> freezeAsset(a, stxn.FreezeAccount, stxn.FreezeAsset,
                                     stxn.AssetFrozen)]
         [] OTHER -> [err |-> FALSE, acc |-> a]

\* AddTransaction, lines 130-193, once the round context is set: [err, acc]
addDeltas(acc, intra, stxn) ==
    LET a == feeDeltas(acc, stxn)
    IN CASE stxn.Type = "pay" -> [err |-> FALSE, acc |-> payDeltas(a, stxn)]
         [] stxn.Type = "keyreg" -> [err |-> FALSE, acc |-> a]
         [] stxn.Type = "acfg" -> [err |-> FALSE, acc |-> acfgDeltas(a, intra, stxn)]
         [] stxn.Type = "axfer" -> [err |-> FALSE, acc |-> axferDeltas(a, stxn)]
         [] stxn.Type = "afrz" ->
                [err |-> FALSE,
                 acc |-> freezeAsset(a, stxn.FreezeAccount, stxn.FreezeAsset,
                                     stxn.AssetFrozen)]
         [] OTHER -> [err |-> TRUE, acc |-> a]

----------------------------------------------------------------------------
(* The ledger that ingestion persisted (tables txn and block_header)       *)
(* before accounting runs: one block of transactions per round.            *)

Pay(s, r, amount) ==
    [ZeroTxn EXCEPT !.Type = "pay", !.Sender = s, !.Fee = 1, !.Receiver = r,
                    !.Amount = amount]

AcfgCreate(s, total, df) ==
    [ZeroTxn EXCEPT !.Type = "acfg", !.Sender = s, !.Fee = 1,
                    !.AssetParams = [Total |-> total, DefaultFrozen |-> df,
                                     Manager |-> s]]

AcfgDestroy(s, assetId) ==
    [ZeroTxn EXCEPT !.Type = "acfg", !.Sender = s, !.Fee = 1, !.ConfigAsset = assetId]

Axfer(s, r, assetId, amount, closeTo) ==
    [ZeroTxn EXCEPT !.Type = "axfer", !.Sender = s, !.Fee = 1, !.XferAsset = assetId,
                    !.AssetAmount = amount, !.AssetReceiver = r,
                    !.AssetCloseTo = closeTo]

Unsupported == [ZeroTxn EXCEPT !.Type = "appl", !.Sender = "A", !.Fee = 1]

\* blocks of payments, an asset creation, transfer and destruction, and bytes
\* the engine rejects
MainPool ==
    { <<>>,
      <<Bytes([Pay("A", "B", 2) EXCEPT !.SenderRewards = 1, !.ReceiverRewards = 1])>>,
      <<Bytes(AcfgCreate("A", 3, TRUE))>>,
      <<Bytes(Axfer("A", "B", 1, 1, zeroAddr))>>,
      <<Bytes(AcfgDestroy("A", 1)), Bytes(AcfgDestroy("A", HighBit))>>,
      <<Bytes(Pay("B", "A", 1)), Bytes(Unsupported)>>,
      <<Garbage>> }

\* blocks that create the assets 1 and 2, move, close and destroy holdings
AssetPool ==
    { <<Bytes(AcfgCreate("A", 3, TRUE))>>,
      <<Bytes(AcfgCreate("A", 3, TRUE)), Bytes(AcfgCreate("B", 2, FALSE))>>,
      <<Bytes(Axfer("B", "A", 2, 1, zeroAddr))>>,
      <<Bytes(Axfer("A", "B", 1, 1, "C"))>>,
      <<Bytes(AcfgDestroy("A", 1))>> }

RECURSIVE BlockRows(_, _, _)
BlockRows(round, block, i) ==
    IF i > Len(block) THEN <<>>
    ELSE <<[Round |-> round, Intra |-> i - 1, TxnBytes |-> block[i]]>>
         \o BlockRows(round, block, i + 1)

\* the rows of table txn for blocks[1..n], the blocks of rounds 0..n-1
RECURSIVE LedgerRows(_, _)
LedgerRows(blocks, n) ==
    IF n = 0 THEN <<>>
    ELSE LedgerRows(blocks, n - 1) \o BlockRows(n - 1, blocks[n], 1)

Header(round) ==
    [FeeSink |-> FeeSink, RewardsPool |-> RewardsPool, RewardsLevel |-> round + 1]

----------------------------------------------------------------------------
(* The coordinator process (updateAccounting) and its calls.               *)

NoTx == [open |-> FALSE, aborted |-> FALSE, tables |-> EmptyTables]

NoRow == [Round |-> 0, Intra |-> 0, TxnBytes |-> Garbage]

NoRun ==
    [rows |-> <<>>, row |-> NoRow, currentRound |-> 0, roundsSeen |-> 0,
     numRoundsLimit |-> 0, AccountRound |-> 0, genesis |-> FALSE, act |-> FALSE,
     err |-> ""]

NoCall ==
    [caller |-> "none", step |-> "none", updates |-> EmptyBatch, round |-> 0,
     rewardsBase |-> 0, any |-> FALSE, err |-> FALSE, fault |-> FALSE]

NoLast ==
    [valid |-> FALSE, err |-> FALSE, Round |-> 0, Intra |-> 0, stxn |-> ZeroTxn,
     c |-> 0, before |-> EmptyBatch, ctx |-> New]

\* no cursor opened: YieldTxns not called yet
NoCursor ==
    [pc |-> "none", prevRound |-> -1, rows |-> <<>>, row |-> [Error |-> FALSE, row |-> NoRow],
     results |-> <<>>, closed |-> FALSE, cancelled |-> FALSE, failed |-> FALSE,
     recv |-> <<>>, done |-> FALSE]

InitWith(pool, anyHeaderMissing) ==
    \E n \in 0..MaxRounds :
      \E blocks \in [1..n -> pool] :
        \E missing \in (IF anyHeaderMissing THEN 0..n ELSE {n}) :
          /\ txn = LedgerRows(blocks, n)
          /\ block_header = [r \in (0..(n - 1)) \ {missing} |-> Header(r)]
          /\ db = EmptyTables
          /\ tx = NoTx
          /\ accounting = New
          /\ pc = "idle"
          /\ run = NoRun
          /\ call = NoCall
          /\ hist = [applied |-> EmptyFn, pre |-> EmptyTables, post |-> EmptyTables,
                     start |-> EmptyTables, batchRounds |-> {}, last |-> NoLast]
          /\ cursor = NoCursor

Init == InitWith(MainPool, TRUE)

InitAsset == InitWith(AssetPool, FALSE)

\* blocks in which a holding is closed and credited again in the same round
OrderPool ==
    { <<Bytes(AcfgCreate("A", 3, TRUE))>>,
      <<Bytes(Axfer("A", "B", 1, 1, "C")), Bytes(Axfer("B", "A", 1, 1, zeroAddr))>>,
      <<Bytes(Axfer("A", "B", 1, 1, zeroAddr))>>,
      <<Bytes(AcfgDestroy("A", 1))>> }

InitOrder == InitWith(OrderPool, FALSE)

----------------------------------------------------------------------------
(* updateAccounting, lines 136-161: read the watermark, load genesis when  *)
(* there is none, create the engine and open the cursor.                   *)

CanStart == pc \in {"idle", "done"}

StartedWith(t, prevRound, limit, genesis, rows) ==
    /\ accounting' = New
    /\ run' = [NoRun EXCEPT !.rows = rows,
                            !.numRoundsLimit = limit,
                            !.AccountRound = prevRound,
                            !.genesis = genesis, !.act = TRUE]
    /\ pc' = "loop"
    /\ db' = t
    /\ hist' = [hist EXCEPT !.pre = t, !.post = t, !.start = t,
                            !.batchRounds = {}, !.last = NoLast]

\* the channel hands over every row of the query
Started(t, prevRound, limit, genesis) ==
    StartedWith(t, prevRound, limit, genesis, YieldTxns(txn, prevRound))

\* no import state recorded and no --genesis: os.Exit(1)
StartNoState ==
    /\ CanStart
    /\ ~HasState(db)
    /\ accounting' = New
    /\ run' = [NoRun EXCEPT !.err = "nostate"]
    /\ pc' = "failed"
    /\ hist' = [hist EXCEPT !.pre = db, !.post = db, !.start = db,
                            !.batchRounds = {}, !.last = NoLast]
    /\ call' = NoCall
    /\ UNCHANGED <<db, tx, txn, block_header, cursor>>

\* no import state recorded and --genesis given: loadGenesis, then AccountRound = -1
StartGenesis ==
    /\ CanStart
    /\ ~HasState(db)
    /\ \E limit \in 0..MaxLimit :
         LET g == LoadGenesis(db)
         IN IF g.err
            THEN /\ accounting' = New
                 /\ run' = [NoRun EXCEPT !.genesis = TRUE, !.err = "genesis"]
                 /\ pc' = "failed"
                 /\ hist' = [hist EXCEPT !.pre = db, !.post = db, !.start = db,
                                         !.batchRounds = {}, !.last = NoLast]
                 /\ db' = db
            ELSE Started(g.t, -1, limit, TRUE)
    /\ call' = NoCall
    /\ UNCHANGED <<tx, txn, block_header, cursor>>

\* import state recorded: ParseImportState, "will start from round > AccountRound"
StartResume ==
    /\ CanStart
    /\ HasState(db)
    /\ \E limit \in 0..MaxLimit : Started(db, AccountRound(db), limit, FALSE)
    /\ call' = NoCall
    /\ UNCHANGED <<tx, txn, block_header, cursor>>

----------------------------------------------------------------------------
(* commitRound: the call of CommitRoundAccounting(RoundUpdates,            *)
(* currentRound, rewardsLevel), entered from AddTransaction or Close.      *)

\* the statement sent on the connection pool (db.db) instead of through tx
TxExecAutocommit(d, t, tables) == [db |-> tables, tx |-> [t EXCEPT !.tables = tables]]

\* a statement executed through tx: only the transaction's view changes
TxExec(d, t, tables) == [db |-> d, tx |-> [t EXCEPT !.tables = tables]]

\* db.db.Begin() and the call's arguments
BeginCommit(caller) ==
    LET u == RoundUpdates(accounting)
        c == CommitRoundAccounting(db, u, accounting.currentRound,
                                   accounting.rewardsLevel)
    IN /\ call' = [caller |-> caller, step |-> "algo", updates |-> u,
                   round |-> accounting.currentRound,
                   rewardsBase |-> accounting.rewardsLevel,
                   any |-> FALSE, err |-> FALSE, fault |-> FALSE]
       /\ tx' = [open |-> TRUE, aborted |-> FALSE, tables |-> db]
       /\ hist' = [hist EXCEPT !.pre = db, !.post = c.t]
       /\ pc' = "commit"

\* one part of the batch: skipped when empty, else its statements run in tx
StepPart(step, next, nonEmpty, tables) ==
    /\ pc = "commit"
    /\ call.step = step
    /\ LET r == IF nonEmpty /\ ~tx.aborted THEN TxExec(db, tx, tables)
                ELSE [db |-> db, tx |-> tx]
       IN /\ db' = r.db
          /\ tx' = r.tx
    /\ call' = [call EXCEPT !.step = next, !.any = @ \/ nonEmpty]
    /\ UNCHANGED <<txn, block_header, cursor, accounting, pc, run, hist>>

\* return of an error: the deferred tx.Rollback() discards the transaction
ReturnErr(fault) ==
    /\ tx' = NoTx
    /\ call' = [call EXCEPT !.err = TRUE, !.fault = @ \/ fault]
    /\ run' = [run EXCEPT !.err = "commit"]
    /\ pc' = "failed"
    /\ UNCHANGED <<db, txn, block_header, cursor, accounting, hist>>

\* return of nil to commitRound, which sets the six parts to nil
ReturnNil(tables, applied) ==
    /\ db' = tables
    /\ tx' = NoTx
    /\ accounting' = clearBatch(accounting)
    /\ pc' = "committed"
    /\ hist' = [hist EXCEPT
                   !.applied = IF applied
                               THEN Upd(@, call.round, Lookup(@, call.round, 0) + 1)
                               ELSE @,
                   !.batchRounds = IF BatchAny(clearBatch(accounting)) THEN @ ELSE {},
                   !.last = NoLast]
    /\ UNCHANGED <<txn, block_header, cursor, run, call>>

StepAlgo ==
    StepPart("algo", "acfg", DOMAIN call.updates.AlgoUpdates # {},
             ApplyAlgoUpdates(tx.tables, call.updates.AlgoUpdates,
                              DOMAIN call.updates.AlgoUpdates, call.rewardsBase))

StepAcfg ==
    StepPart("acfg", "asset", call.updates.AcfgUpdates # <<>>,
             ApplyAcfgUpdates(tx.tables, call.updates.AcfgUpdates))

StepAsset ==
    StepPart("asset", "freeze", call.updates.AssetUpdates # <<>>,
             ApplyAssetUpdates(tx.tables, call.updates.AssetUpdates))

StepFreeze ==
    StepPart("freeze", "close", call.updates.FreezeUpdates # <<>>,
             ApplyFreezeUpdates(tx.tables, call.updates.FreezeUpdates))

\* the closes: a rejected statement returns "asset close send" error
StepClose ==
    /\ pc = "commit"
    /\ call.step = "close"
    /\ LET c == ApplyAssetCloses(tx.tables, call.updates.AssetCloses)
       IN IF c.ok
          THEN StepPart("close", "destroy", call.updates.AssetCloses # <<>>, c.t)
          ELSE ReturnErr(FALSE)

StepDestroy ==
    StepPart("destroy", "state", call.updates.AssetDestroys # <<>>,
             ApplyAssetDestroys(tx.tables, call.updates.AssetDestroys))

\* ads.Exec(assetId) fails in the database: its error is dropped (line
\* 334); the failed statement leaves the transaction aborted, and the loop
\* goes on
DestroyExecFails ==
    /\ pc = "commit"
    /\ call.step = "destroy"
    /\ \E i \in 1..Len(call.updates.AssetDestroys) :
          Convertible(call.updates.AssetDestroys[i])
    /\ tx' = [tx EXCEPT !.aborted = TRUE]
    /\ call' = [call EXCEPT !.step = "state", !.any = TRUE, !.fault = TRUE]
    /\ UNCHANGED <<db, txn, block_header, cursor, accounting, pc, run, hist>>

\* lines 340-362: early return, else read and write the watermark row
StepState ==
    /\ pc = "commit"
    /\ call.step = "state"
    /\ IF ReturnsEarly(call.any) THEN ReturnNil(db, FALSE)
       ELSE IF tx.aborted THEN ReturnErr(FALSE)
       ELSE /\ LET r == TxExec(db, tx, setstate(tx.tables, call.round))
               IN /\ db' = r.db
                  /\ tx' = r.tx
            /\ call' = [call EXCEPT !.step = "commit"]
            /\ UNCHANGED <<txn, block_header, cursor, accounting, pc, run, hist>>

\* line 363: tx.Commit()
StepCommit ==
    /\ pc = "commit"
    /\ call.step = "commit"
    /\ ReturnNil(tx.tables, TRUE)

\* whether the current step sends a statement to the database
Executes ==
    \/ call.step = "algo" /\ DOMAIN call.updates.AlgoUpdates # {}
    \/ call.step = "acfg" /\ call.updates.AcfgUpdates # <<>>
    \/ call.step = "asset" /\ call.updates.AssetUpdates # <<>>
    \/ call.step = "freeze" /\ call.updates.FreezeUpdates # <<>>
    \/ call.step = "close" /\ call.updates.AssetCloses # <<>>
    \/ call.step = "destroy" /\ call.updates.AssetDestroys # <<>>
    \/ call.step = "state" /\ call.any
    \/ call.step = "commit"

\* a Prepare, Exec, Scan or Commit of the current step fails (storage error)
StmtFails ==
    /\ pc = "commit"
    /\ Executes
    /\ ReturnErr(TRUE)

----------------------------------------------------------------------------
(* updateAccounting, lines 164-183: the loop over the cursor, and          *)
(* AddTransaction, lines 113-193.                                          *)

\* lines 165-168 of the loop body: a row of another round than the last seen
SeenRound(r, row) ==
    IF row.Round # r.currentRound
    THEN [r EXCEPT !.roundsSeen = @ + 1, !.currentRound = row.Round]
    ELSE r

\* line 169: the rounds limit is set and exceeded
LimitReached(r, row) ==
    /\ row.Round # r.currentRound
    /\ r.numRoundsLimit # 0
    /\ r.roundsSeen + 1 > r.numRoundsLimit

\* lines 130-193 applied to row by an engine whose round context is set
Accumulate(acc, row) ==
    LET r == addDeltas(acc, row.Intra, row.TxnBytes.stxn)
    IN /\ accounting' = r.acc
       /\ pc' = IF r.err THEN "failed" ELSE "loop"
       /\ hist' = [hist EXCEPT
                      !.batchRounds = (IF BatchAny(acc) THEN @ ELSE {}) \cup {row.Round},
                      !.last = [valid |-> TRUE, err |-> r.err, Round |-> row.Round,
                                Intra |-> row.Intra, stxn |-> row.TxnBytes.stxn,
                                c |-> acc.txnCounter, before |-> RoundUpdates(acc),
                                ctx |-> IF BatchAny(acc) THEN hist.last.ctx ELSE acc]]
       /\ run' = [run EXCEPT !.rows = IF run.row = row THEN @ ELSE Tail(@),
                             !.row = row,
                             !.currentRound = SeenRound(run, row).currentRound,
                             !.roundsSeen = SeenRound(run, row).roundsSeen,
                             !.err = IF r.err THEN "type" ELSE ""]

\* the channel is closed and drained: act.Close()
ChannelClosed ==
    /\ pc = "loop"
    /\ run.rows = <<>>
    /\ BeginCommit("close")
    /\ UNCHANGED <<db, txn, block_header, cursor, accounting, run>>

\* break out of the loop at the rounds limit, then act.Close()
RoundsLimit ==
    /\ pc = "loop"
    /\ run.rows # <<>>
    /\ LimitReached(run, Head(run.rows))
    /\ run' = [SeenRound(run, Head(run.rows)) EXCEPT !.rows = Tail(@)]
    /\ BeginCommit("close")
    /\ UNCHANGED <<db, txn, block_header, cursor, accounting>>

\* act.AddTransaction(txn.Round, txn.Intra, txn.TxnBytes)
AddTransaction ==
    /\ pc = "loop"
    /\ run.rows # <<>>
    /\ ~LimitReached(run, Head(run.rows))
    /\ LET row == Head(run.rows)
           r1 == [SeenRound(run, row) EXCEPT !.rows = Tail(@), !.row = row]
       IN IF ~row.TxnBytes.valid
          THEN /\ run' = [r1 EXCEPT !.err = "decode"]
               /\ pc' = "failed"
               /\ UNCHANGED <<db, tx, accounting, call, hist>>
          ELSE IF accounting.currentRound # row.Round
          THEN /\ run' = r1
               /\ BeginCommit("add")
               /\ UNCHANGED <<db, accounting>>
          ELSE /\ Accumulate(accounting, row)
               /\ UNCHANGED <<db, tx, call>>
    /\ UNCHANGED <<txn, block_header, cursor>>

\* commitRound returned nil: initRound and the deltas (AddTransaction), or
\* the end of the run (Close)
AfterCommit ==
    /\ pc = "committed"
    /\ IF call.caller = "close"
       THEN /\ pc' = "done"
            /\ UNCHANGED <<accounting, run, hist>>
       ELSE LET i == initRound(accounting, block_header, run.row.Round)
            IN IF i.err
               THEN /\ pc' = "failed"
                    /\ run' = [run EXCEPT !.err = "init"]
                    /\ UNCHANGED <<accounting, hist>>
               ELSE Accumulate(i.acc, run.row)
    /\ UNCHANGED <<db, tx, txn, block_header, cursor, call>>

\* the process dies: the open transaction is rolled back, the engine is lost
Stopped ==
    /\ tx' = NoTx
    /\ accounting' = New
    /\ run' = NoRun
    /\ call' = NoCall
    /\ pc' = "idle"
    /\ hist' = [hist EXCEPT !.batchRounds = {}, !.last = NoLast]
    /\ UNCHANGED <<db, txn, block_header, cursor>>

Crash ==
    /\ pc \in {"loop", "commit", "committed"}
    /\ Stopped

\* maybeFail: os.Exit(1)
Exit ==
    /\ pc = "failed"
    /\ Stopped

Next ==
    \/ StartNoState
    \/ StartGenesis
    \/ StartResume
    \/ ChannelClosed
    \/ RoundsLimit
    \/ AddTransaction
    \/ StepAlgo
    \/ StepAcfg
    \/ StepAsset
    \/ StepFreeze
    \/ StepClose
    \/ StepDestroy
    \/ DestroyExecFails
    \/ StepState
    \/ StepCommit
    \/ StmtFails
    \/ AfterCommit
    \/ Crash
    \/ Exit

Spec == Init /\ [][Next]_vars

SpecAsset == InitAsset /\ [][Next]_vars

SpecOrder == InitOrder /\ [][Next]_vars

----------------------------------------------------------------------------
(* The coordinator over a channel that yieldTxnsThread may close early     *)
(* (rows.Next() false after a read failure, rows.Err() never looked at) or *)
(* on which it sends an error element (rows.Scan fails, the query fails).  *)

\* rounds of two transactions
FeedPool ==
    { <<Bytes(Pay("A", "B", 2))>>,
      <<Bytes(Pay("B", "A", 1)), Bytes(Pay("A", "B", 1))>>,
      <<Bytes(AcfgDestroy("A", 1)), Bytes(AcfgDestroy("A", HighBit))>> }

InitFeed == InitWith(FeedPool, FALSE)

\* TxnRow{Error: err} as the loop of updateAccounting reads it: Round 0,
\* Intra 0 and no bytes, which do not decode
ErrorRow == [Round |-> 0, Intra |-> 0, TxnBytes |-> Garbage]

\* what the channel can hand over of rows before it is closed: a prefix, or
\* a prefix and an error element (what follows an error element is not
\* read: the loop fails on it or breaks at the rounds limit)
Feeds(rows) ==
    {SubSeq(rows, 1, k) : k \in 0..Len(rows)}
        \cup {SubSeq(rows, 1, k) \o <<ErrorRow>> : k \in 0..Len(rows)}

StartGenesisFed ==
    /\ CanStart
    /\ ~HasState(db)
    /\ LET g == LoadGenesis(db)
       IN /\ ~g.err
          /\ \E limit \in 0..MaxLimit, rows \in Feeds(YieldTxns(txn, -1)) :
                StartedWith(g.t, -1, limit, TRUE, rows)
    /\ call' = NoCall
    /\ UNCHANGED <<tx, txn, block_header, cursor>>

StartResumeFed ==
    /\ CanStart
    /\ HasState(db)
    /\ \E limit \in 0..MaxLimit, rows \in Feeds(YieldTxns(txn, AccountRound(db))) :
          StartedWith(db, AccountRound(db), limit, FALSE, rows)
    /\ call' = NoCall
    /\ UNCHANGED <<tx, txn, block_header, cursor>>

NextFeed ==
    \/ StartNoState
    \/ StartGenesis
    \/ StartGenesisFed
    \/ StartResumeFed
    \/ ChannelClosed
    \/ RoundsLimit
    \/ AddTransaction
    \/ StepAlgo
    \/ StepAcfg
    \/ StepAsset
    \/ StepFreeze
    \/ StepClose
    \/ StepDestroy
    \/ DestroyExecFails
    \/ StepState
    \/ StepCommit
    \/ StmtFails
    \/ AfterCommit
    \/ Crash
    \/ Exit

SpecFeed == InitFeed /\ [][NextFeed]_vars

----------------------------------------------------------------------------
(* YieldTxns and yieldTxnsThread (idb/postgres.go, lines 197-233): the     *)
(* producer goroutine, the channel of capacity 1 and a consumer that       *)
(* ranges over the channel.                                                *)

\* TxnRow as sent on the channel: a row, or the zero row with Error set
Elem(row) == [Error |-> FALSE, row |-> row]

ErrorElem == [Error |-> TRUE, row |-> NoRow]

RECURSIVE Elems(_)
Elems(rows) == IF rows = <<>> THEN <<>> ELSE <<Elem(Head(rows))>> \o Elems(Tail(rows))

\* a channel on which a send never blocks
ChanFullNever(results) == FALSE

\* make(chan TxnRow, 1): a send blocks while one element is buffered
ChanFull(results) == Len(results) >= 1

CursorIdle == UNCHANGED <<db, tx, txn, block_header, accounting, pc, run, call, hist>>

\* YieldTxns: the query succeeds and the producer thread is started
YieldTxnsOpen ==
    /\ cursor.pc = "none"
    /\ \E prevRound \in -1..(MaxRounds - 1) :
         cursor' = [cursor EXCEPT !.pc = "next", !.prevRound = prevRound,
                                  !.rows = YieldTxns(txn, prevRound)]
    /\ CursorIdle

\* YieldTxns, lines 226-230: QueryContext fails; one error element, then close
YieldTxnsQueryFails ==
    /\ cursor.pc = "none"
    /\ \E prevRound \in -1..(MaxRounds - 1) :
         cursor' = [cursor EXCEPT !.pc = "closed", !.prevRound = prevRound,
                                  !.results = <<ErrorElem>>, !.closed = TRUE,
                                  !.failed = TRUE]
    /\ CursorIdle

\* rows.Next() is true and rows.Scan succeeds (after a cancellation this is
\* the producer winning the race against the closing of rows)
RowsNext ==
    /\ cursor.pc = "next"
    /\ cursor.rows # <<>>
    /\ cursor' = [cursor EXCEPT !.pc = "select", !.row = Elem(Head(cursor.rows)),
                                !.rows = Tail(@)]
    /\ CursorIdle

\* rows.Next() is true and rows.Scan fails: row.Error = err
ScanFails ==
    /\ cursor.pc = "next"
    /\ cursor.rows # <<>>
    /\ cursor' = [cursor EXCEPT !.pc = "select", !.row = ErrorElem,
                                !.rows = Tail(@), !.failed = TRUE]
    /\ CursorIdle

\* rows.Next() is false at the end of the result set: close(results)
RowsEnd ==
    /\ cursor.pc = "next"
    /\ cursor.rows = <<>>
    /\ cursor' = [cursor EXCEPT !.pc = "closed", !.closed = TRUE]
    /\ CursorIdle

\* rows.Next() is false because reading the next row failed; rows.Err() is
\* not looked at: close(results)
RowsFail ==
    /\ cursor.pc = "next"
    /\ cursor.rows # <<>>
    /\ ~cursor.cancelled
    /\ cursor' = [cursor EXCEPT !.pc = "closed", !.closed = TRUE, !.failed = TRUE]
    /\ CursorIdle

\* rows.Next() is false because the context of the query was cancelled
RowsCancelled ==
    /\ cursor.pc = "next"
    /\ cursor.cancelled
    /\ cursor' = [cursor EXCEPT !.pc = "closed", !.closed = TRUE]
    /\ CursorIdle

\* select, case results <- row: the break leaves the select only, whether or
\* not the row carries an error
SelectSend ==
    /\ cursor.pc = "select"
    /\ ~ChanFull(cursor.results)
    /\ cursor' = [cursor EXCEPT !.pc = "next", !.results = Append(@, cursor.row)]
    /\ CursorIdle

\* select, case <-ctx.Done(): the break leaves the select only; the row in
\* hand is dropped
SelectDone ==
    /\ cursor.pc = "select"
    /\ cursor.cancelled
    /\ cursor' = [cursor EXCEPT !.pc = "next"]
    /\ CursorIdle

\* the context is cancelled while the producer runs
Cancel ==
    /\ cursor.pc \in {"next", "select"}
    /\ ~cursor.cancelled
    /\ cursor' = [cursor EXCEPT !.cancelled = TRUE]
    /\ CursorIdle

\* the consumer receives the buffered element
Receive ==
    /\ cursor.results # <<>>
    /\ ~cursor.done
    /\ cursor' = [cursor EXCEPT !.results = Tail(@), !.recv = Append(@, Head(cursor.results))]
    /\ CursorIdle

\* the consumer finds the channel closed and drained: its range loop ends
ReceiveClosed ==
    /\ cursor.closed
    /\ cursor.results = <<>>
    /\ ~cursor.done
    /\ cursor' = [cursor EXCEPT !.done = TRUE]
    /\ CursorIdle

NextCursor ==
    \/ YieldTxnsOpen
    \/ YieldTxnsQueryFails
    \/ RowsNext
    \/ ScanFails
    \/ RowsEnd
    \/ RowsFail
    \/ RowsCancelled
    \/ SelectSend
    \/ SelectDone
    \/ Cancel
    \/ Receive
    \/ ReceiveClosed

SpecCursor == InitAsset /\ [][NextCursor]_vars

----------------------------------------------------------------------------
(* The producer and a consumer that may leave its loop at the rounds limit *)
(* (updateAccounting, line 169), under fair scheduling of both goroutines. *)

\* txn.Round as the loop reads it from an element
ElemRound(e) == IF e.Error THEN 0 ELSE e.row.Round

\* roundsSeen after the elements of recv, counted from currentRound = cur
RECURSIVE RoundsSeen(_, _)
RoundsSeen(recv, cur) ==
    IF recv = <<>> THEN 0
    ELSE (IF ElemRound(Head(recv)) # cur THEN 1 ELSE 0)
            + RoundsSeen(Tail(recv), ElemRound(Head(recv)))

\* line 169: the element just received exceeds the rounds limit: break; the
\* channel is not read again and the context is never cancelled
ConsumerBreaks ==
    /\ ~cursor.done
    /\ cursor.recv # <<>>
    /\ \E limit \in 1..MaxLimit :
          /\ RoundsSeen(cursor.recv, 0) > limit
          /\ RoundsSeen(SubSeq(cursor.recv, 1, Len(cursor.recv) - 1), 0) <= limit
    /\ cursor' = [cursor EXCEPT !.done = TRUE]
    /\ CursorIdle

\* the steps of yieldTxnsThread
Producer ==
    \/ RowsNext
    \/ ScanFails
    \/ RowsEnd
    \/ RowsFail
    \/ RowsCancelled
    \/ SelectSend
    \/ SelectDone

\* the steps of the loop over the channel
Consumer ==
    \/ Receive
    \/ ReceiveClosed
    \/ ConsumerBreaks

NextCursorStop ==
    \/ YieldTxnsOpen
    \/ YieldTxnsQueryFails
    \/ RowsNext
    \/ ScanFails
    \/ RowsEnd
    \/ RowsFail
    \/ RowsCancelled
    \/ SelectSend
    \/ SelectDone
    \/ Cancel
    \/ Receive
    \/ ReceiveClosed
    \/ ConsumerBreaks

\* both goroutines are scheduled as long as they can take a step
SpecCursorFair ==
    /\ InitFeed
    /\ [][NextCursorStop]_vars
    /\ WF_vars(Producer)
    /\ WF_vars(Consumer)

----------------------------------------------------------------------------
(* The engine on its own: AddTransaction, lines 130-193, applied to        *)
(* asset-config transactions of one round.                                 *)

\* asset-config transactions: destructions, creations with and without a
\* supply, re-configurations
AcfgTxns ==
    {[ZeroTxn EXCEPT !.Type = "acfg", !.Sender = s, !.Fee = 1,
                     !.ConfigAsset = id, !.AssetParams = p] :
        s \in {"A", "B"}, id \in 0..2,
        p \in {ZeroParams,
               [Total |-> 0, DefaultFrozen |-> FALSE, Manager |-> "A"],
               [Total |-> 3, DefaultFrozen |-> FALSE, Manager |-> "A"],
               [Total |-> 3, DefaultFrozen |-> TRUE, Manager |-> "A"]}}

InitEngine ==
    /\ txn = <<>>
    /\ block_header = EmptyFn
    /\ db = EmptyTables
    /\ tx = NoTx
    /\ accounting = New
    /\ pc = "engine"
    /\ run = NoRun
    /\ call = NoCall
    /\ hist = [applied |-> EmptyFn, pre |-> EmptyTables, post |-> EmptyTables,
               start |-> EmptyTables, batchRounds |-> {}, last |-> NoLast]
    /\ cursor = NoCursor

\* asset transfers of asset 1 sent by A: plain and clawback (from B), with
\* and without an amount, with and without a close-to address
AxferTxns ==
    {[ZeroTxn EXCEPT !.Type = "axfer", !.Sender = "A", !.Fee = 1, !.XferAsset = 1,
                     !.AssetSender = as, !.AssetReceiver = r, !.AssetAmount = m,
                     !.AssetCloseTo = ct] :
        as \in {zeroAddr, "B"}, r \in {"A", "C"}, m \in 0..1, ct \in {zeroAddr, "C"}}

\* AddTransaction of a transaction of the engine's current round
EngineAddOf(stxns) ==
    /\ pc = "engine"
    /\ run.roundsSeen < MaxTxns
    /\ \E stxn \in stxns, intra \in 0..1 :
         LET r == addDeltas(accounting, intra, stxn)
         IN /\ accounting' = r.acc
            /\ hist' = [hist EXCEPT
                           !.batchRounds = {accounting.currentRound},
                           !.last = [valid |-> TRUE, err |-> r.err,
                                     Round |-> accounting.currentRound,
                                     Intra |-> intra, stxn |-> stxn,
                                     c |-> accounting.txnCounter,
                                     before |-> RoundUpdates(accounting),
                                     ctx |-> New]]
    /\ run' = [run EXCEPT !.roundsSeen = @ + 1]
    /\ UNCHANGED <<db, tx, txn, block_header, pc, call, cursor>>

EngineAdd == EngineAddOf(AcfgTxns)

EngineAddAxfer == EngineAddOf(AxferTxns)

NextEngine ==
    \/ EngineAdd
    \/ EngineAddAxfer

SpecEngine == InitEngine /\ [][NextEngine]_vars

----------------------------------------------------------------------------
(* The storage on its own: CommitRoundAccounting (idb/postgres.go, lines   *)
(* 235-364) called with batches of one holding delta, one freeze update or *)
(* one closure.                                                            *)

HoldingDeltas ==
    {[Addr |-> a, AssetId |-> x, Delta |-> d, DefaultFrozen |-> df] :
        a \in {"A", "C"}, x \in 1..2, d \in {-1, 2}, df \in BOOLEAN}

Freezes ==
    {[Addr |-> a, AssetId |-> x, Frozen |-> f] :
        a \in {"A", "C"}, x \in 1..2, f \in BOOLEAN}

Closures ==
    {[CloseTo |-> "C", AssetId |-> x, Sender |-> "A"] : x \in 1..2}

InitStorage ==
    /\ txn = <<>>
    /\ block_header = EmptyFn
    /\ db = EmptyTables
    /\ tx = NoTx
    /\ accounting = New
    /\ pc = "storage"
    /\ run = NoRun
    /\ call = NoCall
    /\ hist = [applied |-> EmptyFn, pre |-> EmptyTables, post |-> EmptyTables,
               start |-> EmptyTables, batchRounds |-> {}, last |-> NoLast]
    /\ cursor = NoCursor

\* CommitRoundAccounting(u, 0, 0) run to its return with no storage failure
CommitCall(u) ==
    LET c == CommitRoundAccounting(db, u, 0, 0)
    IN /\ pc = "storage"
       /\ run.roundsSeen < MaxCalls
       /\ db' = c.t
       /\ call' = [NoCall EXCEPT !.caller = "storage", !.updates = u,
                                 !.any = BatchAny(u), !.err = c.err]
       /\ hist' = [hist EXCEPT !.pre = db, !.post = c.t]
       /\ run' = [run EXCEPT !.roundsSeen = @ + 1]
       /\ UNCHANGED <<tx, txn, block_header, accounting, pc, cursor>>

CommitHolding == \E au \in HoldingDeltas : CommitCall([EmptyBatch EXCEPT !.AssetUpdates = <<au>>])

CommitFreeze == \E fs \in Freezes : CommitCall([EmptyBatch EXCEPT !.FreezeUpdates = <<fs>>])

CommitClosure == \E ac \in Closures : CommitCall([EmptyBatch EXCEPT !.AssetCloses = <<ac>>])

NextStorage ==
    \/ CommitHolding
    \/ CommitFreeze
    \/ CommitClosure

SpecStorage == InitStorage /\ [][NextStorage]_vars

----------------------------------------------------------------------------
(* One execution of updateAccounting that is never stopped: genesis into   *)
(* the empty database, every row of the cursor, Close.                     *)

\* AddTransaction with the commit run to its end: [err, acc, t]
AddTransactionWhole(acc, t, row) ==
    IF ~row.TxnBytes.valid THEN [err |-> TRUE, acc |-> acc, t |-> t]
    ELSE IF acc.currentRound # row.Round
    THEN LET c == CommitRoundAccounting(t, RoundUpdates(acc), acc.currentRound,
                                        acc.rewardsLevel)
             i == initRound(clearBatch(acc), block_header, row.Round)
             d == addDeltas(i.acc, row.Intra, row.TxnBytes.stxn)
         IN IF c.err THEN [err |-> TRUE, acc |-> acc, t |-> t]
            ELSE IF i.err THEN [err |-> TRUE, acc |-> i.acc, t |-> c.t]
            ELSE [err |-> d.err, acc |-> d.acc, t |-> c.t]
    ELSE LET d == addDeltas(acc, row.Intra, row.TxnBytes.stxn)
         IN [err |-> d.err, acc |-> d.acc, t |-> t]

\* the loop over the cursor followed by Close: [ok, t]
RECURSIVE RunLoop(_, _, _)
RunLoop(acc, t, rows) ==
    IF rows = <<>>
    THEN LET c == CommitRoundAccounting(t, RoundUpdates(acc), acc.currentRound,
                                        acc.rewardsLevel)
         IN [ok |-> ~c.err, t |-> c.t]
    ELSE LET a == AddTransactionWhole(acc, t, Head(rows))
         IN IF a.err THEN [ok |-> FALSE, t |-> a.t]
            ELSE RunLoop(a.acc, a.t, Tail(rows))

Uninterrupted == RunLoop(New, LoadGenesis(EmptyTables).t, YieldTxns(txn, -1))

\* the watermark, -1 when no import state is recorded
Watermark(t) == IF HasState(t) THEN AccountRound(t) ELSE -1

\* every persisted transaction belongs to a committed round
Complete == \A i \in 1..Len(txn) : txn[i].Round <= Watermark(db)

SameTables(t1, t2) ==
    /\ t1.account = t2.account
    /\ t1.account_asset = t2.account_asset
    /\ t1.asset = t2.asset

----------------------------------------------------------------------------
(* Properties.                                                             *)

\* C1: an execution of the coordinator that was stopped and restarted (each
\* restart with a fresh engine, resuming from the watermark) and has
\* finished after committing every persisted round ends with the same
\* account, account_asset and asset tables as one uninterrupted execution.
C1_ResumeEquivalence ==
    (pc = "done" /\ Complete) =>
        (Uninterrupted.ok /\ SameTables(db, Uninterrupted.t))

\* C2: CommitRoundAccounting is atomic. In every state, also inside the call
\* and after a crash or a failed statement, the visible tables are either
\* the ones the call started from (none of the round's changes, watermark
\* untouched) or the ones with every change of the batch and the watermark
\* write; the watermark names the call's round only in the latter.
C2_CommitAtomic ==
    /\ db = hist.pre \/ db = hist.post
    /\ pc = "commit" => db = hist.pre
    /\ (call.caller # "none" /\ call.any /\ db # hist.pre) =>
           /\ Watermark(db) = call.round
           /\ db = CommitRoundAccounting(hist.pre, call.updates, call.round,
                                         call.rewardsBase).t

\* C2 witness: inside a commit every statement of a non-empty batch and the
\* watermark write have run in the transaction and none of it is visible
C2_Witness ==
    /\ pc = "commit"
    /\ call.step = "commit"
    /\ tx.tables = hist.post
    /\ db = hist.pre
    /\ hist.pre # hist.post
    /\ DOMAIN call.updates.AlgoUpdates # {}
    /\ call.updates.AssetUpdates # <<>>

\* the rows the running coordinator has still to feed, and the one in hand
Feeding ==
    {run.rows[i] : i \in 1..Len(run.rows)}
        \cup (IF hist.last.valid THEN {[Round |-> hist.last.Round]} ELSE {})

\* C3, first part: a run feeds the engine only transactions of rounds
\* strictly greater than the persisted watermark.
C3_FeedsAfterWatermark ==
    pc \in {"loop", "commit", "committed"} =>
        \A row \in Feeding : row.Round > Watermark(db)

\* C3, second part: the deltas of a round become durable at most once.
C3_AppliedAtMostOnce == \A r \in DOMAIN hist.applied : hist.applied[r] <= 1

\* C3, third part: a round whose commit did not complete is accumulated
\* again by a later run: a run that finds uncommitted rounds, and is not
\* refused for want of a genesis source, creates the engine and opens the
\* cursor behind the watermark.
C3_Reprocessed ==
    (pc # "idle" /\ run.err # "nostate" /\ ~Complete) =>
        /\ run.act
        /\ run.AccountRound = Watermark(hist.start)

\* C3: across coordinator runs that may crash at any point, the three parts
\* together.
C3_ResumeIdempotent ==
    /\ C3_FeedsAfterWatermark
    /\ C3_AppliedAtMostOnce
    /\ C3_Reprocessed

\* C4 as claimed: whenever commitRound returns successfully the watermark
\* equals the committed round and the batch is empty, whatever the batch held.
C4_WatermarkIsRound ==
    pc = "committed" => (Watermark(db) = call.round /\ ~BatchAny(accounting))

\* C4 amended: whenever commitRound returns successfully the batch is empty;
\* the watermark equals the committed round when the committed batch was
\* non-empty, and is left as it was when the batch was empty.
C4_CommitReturn ==
    pc = "committed" =>
        /\ ~BatchAny(accounting)
        /\ BatchAny(call.updates) => Watermark(db) = call.round
        /\ ~BatchAny(call.updates) => db.metastate = hist.pre.metastate

\* C4 witness: a successful commit of a non-empty batch of a round after 0
C4_Witness ==
    /\ pc = "committed"
    /\ BatchAny(call.updates)
    /\ call.round > 0
    /\ Watermark(hist.pre) < call.round

TxnsBefore(r) == Cardinality({i \in 1..Len(txn) : txn[i].Round < r})

\* C6: while the engine accumulates a round, its transaction counter is the
\* number of transactions of all earlier rounds; an asset creation (target
\* ID 0) at intra-index i with counter c gets ID c + i + 1, and with a total
\* supply T # 0 the creator gets one holding delta of +T for that ID.
C6_TxnCounter ==
    hist.last.valid =>
        /\ accounting.txnCounter = TxnsBefore(accounting.currentRound)
        /\ (/\ hist.last.stxn.Type = "acfg"
            /\ hist.last.stxn.ConfigAsset = 0
            /\ ~ParamsIsZero(hist.last.stxn.AssetParams)) =>
               LET id == hist.last.c + hist.last.Intra + 1
                   T == hist.last.stxn.AssetParams.Total
               IN /\ accounting.AcfgUpdates[Len(accounting.AcfgUpdates)].AssetId = id
                  /\ T # 0 =>
                        /\ Len(accounting.AssetUpdates)
                               = Len(hist.last.before.AssetUpdates) + 1
                        /\ LET au == accounting.AssetUpdates[Len(accounting.AssetUpdates)]
                           IN /\ au.Addr = hist.last.stxn.Sender
                              /\ au.AssetId = id
                              /\ au.Delta = T

\* C7: whenever the deltas of a transaction of round r are accumulated, the
\* engine's fee sink, rewards pool and rewards level are those of the
\* persisted header of r; with no header for r the call fails and no delta
\* of the transaction is accumulated.
C7_RoundContext ==
    /\ hist.last.valid =>
          /\ hist.last.Round \in DOMAIN block_header
          /\ accounting.feeAddr = block_header[hist.last.Round].FeeSink
          /\ accounting.rewardAddr = block_header[hist.last.Round].RewardsPool
          /\ accounting.rewardsLevel = block_header[hist.last.Round].RewardsLevel
    /\ (pc = "failed" /\ run.err = "init") => ~BatchAny(accounting)

\* C8: the batch holds deltas of one round only, the engine's current round;
\* a transaction of another round has the batch committed under the old
\* round and cleared before its deltas are accumulated, and when that commit
\* fails none of its deltas is accumulated.
C8_OneRoundBatch ==
    /\ hist.batchRounds \subseteq {accounting.currentRound}
    /\ BatchAny(accounting) => hist.batchRounds = {accounting.currentRound}
    /\ pc = "commit" =>
          /\ call.round = accounting.currentRound
          /\ call.updates = RoundUpdates(accounting)
    /\ (pc = "committed" /\ call.caller = "add") =>
          /\ ~BatchAny(accounting)
          /\ run.row.Round # call.round
    /\ (pc = "failed" /\ run.err = "commit" /\ call.caller = "add") =>
          /\ run.row.Round \notin hist.batchRounds
          /\ RoundUpdates(accounting) = call.updates

\* C8 witness: after a round was committed at a round transition the batch
\* holds deltas of the next round
C8_Witness ==
    /\ pc = "loop"
    /\ BatchAny(accounting)
    /\ call.caller = "add"
    /\ BatchAny(call.updates)
    /\ call.round # accounting.currentRound
    /\ hist.batchRounds = {accounting.currentRound}

Amount(t, addr, assetId) ==
    IF <<addr, assetId>> \in DOMAIN t.account_asset
    THEN t.account_asset[<<addr, assetId>>].amount
    ELSE 0

\* the committed batch is that of a round with one transaction, an asset
\* transfer with a close-to address between three different accounts
IsCloseRound(u) ==
    /\ Len(u.AssetCloses) = 1
    /\ Len(u.AssetUpdates) = 2
    /\ u.AcfgUpdates = <<>> /\ u.FreezeUpdates = <<>> /\ u.AssetDestroys = <<>>
    /\ u.AssetUpdates[1].Addr = u.AssetCloses[1].Sender
    /\ u.AssetUpdates[1].AssetId = u.AssetCloses[1].AssetId
    /\ u.AssetUpdates[2].AssetId = u.AssetCloses[1].AssetId
    /\ u.AssetUpdates[2].Delta = -u.AssetUpdates[1].Delta
    /\ Cardinality({u.AssetCloses[1].Sender, u.AssetUpdates[2].Addr,
                    u.AssetCloses[1].CloseTo}) = 3

\* C9: a transfer of m of asset X from A, who holds h >= m of X and possibly
\* other assets, to B with close-to C: once the commit of its round has
\* returned, with no storage failure, the round is committed, A has no row
\* for X, B holds m more of X and C holds h - m more of X.
C9_AssetClose ==
    LET u == call.updates
        A == u.AssetCloses[1].Sender
        B == u.AssetUpdates[2].Addr
        C == u.AssetCloses[1].CloseTo
        X == u.AssetCloses[1].AssetId
        m == u.AssetUpdates[2].Delta
        h == Amount(hist.pre, A, X)
    IN (/\ pc = "committed" \/ (pc = "failed" /\ run.err = "commit")
        /\ ~call.fault
        /\ IsCloseRound(u)
        /\ <<A, X>> \in DOMAIN hist.pre.account_asset
        /\ h >= m) =>
           /\ ~call.err
           /\ <<A, X>> \notin DOMAIN db.account_asset
           /\ Amount(db, B, X) = Amount(hist.pre, B, X) + m
           /\ Amount(db, C, X) = Amount(hist.pre, C, X) + h - m

\* the committed call with the destructions left out of its batch
WithoutDestroys ==
    CommitRoundAccounting(hist.pre, [call.updates EXCEPT !.AssetDestroys = <<>>],
                          call.round, call.rewardsBase).t

Destroyed == {call.updates.AssetDestroys[i] : i \in 1..Len(call.updates.AssetDestroys)}

\* C10: after the commit of a round that destroys asset X no account has a
\* holding row for X, the asset row of X is still there with its parameters,
\* and the holding rows of every other asset are what they would be without
\* the destruction.
C10_AssetDestroy ==
    (pc = "committed" /\ call.updates.AssetDestroys # <<>>) =>
        /\ \A k \in DOMAIN db.account_asset : k[2] \notin Destroyed
        /\ \A X \in Destroyed \cap DOMAIN hist.pre.asset :
              /\ X \in DOMAIN db.asset
              /\ db.asset[X] = WithoutDestroys.asset[X]
        /\ \A k \in (DOMAIN WithoutDestroys.account_asset)
                        \cup (DOMAIN db.account_asset) :
              k[2] \notin Destroyed =>
                 /\ k \in DOMAIN db.account_asset
                 /\ k \in DOMAIN WithoutDestroys.account_asset
                 /\ db.account_asset[k] = WithoutDestroys.account_asset[k]

\* C10 witness: a committed round destroyed asset 1, which accounts held,
\* while holdings of another asset exist
C10_Witness ==
    /\ pc = "committed"
    /\ 1 \in Destroyed
    /\ 1 \in DOMAIN db.asset
    /\ \E k \in DOMAIN hist.pre.account_asset : k[2] = 1
    /\ \E k \in DOMAIN db.account_asset : k[2] = 2

\* every address a transaction or a header of the ledgers names
Addrs == {"A", "B", "C", FeeSink, RewardsPool, zeroAddr}

\* the algo delta that a transaction with the given fee sink and rewards pool
\* owes to address a: fee and sender reward, and for a payment the amount,
\* the closing amount and the receiver and close rewards
AlgoDeltaOf(s, sink, pool, a) ==
    (IF a = s.Sender THEN s.SenderRewards - s.Fee ELSE 0)
    + (IF a = sink THEN s.Fee ELSE 0)
    + (IF a = pool THEN -s.SenderRewards ELSE 0)
    + (IF s.Type # "pay" THEN 0
       ELSE (IF a = s.Sender THEN -s.Amount - s.ClosingAmount ELSE 0)
            + (IF a = s.Receiver THEN s.Amount + s.ReceiverRewards ELSE 0)
            + (IF a = s.CloseRemainderTo THEN s.ClosingAmount + s.CloseRewards ELSE 0)
            + (IF a = pool THEN -(s.ReceiverRewards + s.CloseRewards) ELSE 0))

\* C11: a transaction of a supported type changes the algo deltas of the
\* batch by -f + s for the sender, +f for the fee sink of its round and -s
\* for the rewards pool of its round; a payment also by -a - k for the
\* sender, +a + rr for the receiver, +k + cr for the close-remainder-to
\* address and -(rr + cr) for the rewards pool; deltas of one address add up.
C11_AlgoDeltas ==
    (hist.last.valid /\ ~hist.last.err /\ hist.last.Round \in DOMAIN block_header) =>
        \A a \in Addrs :
            Lookup(accounting.AlgoUpdates, a, 0)
              - Lookup(hist.last.before.AlgoUpdates, a, 0)
            = AlgoDeltaOf(hist.last.stxn, block_header[hist.last.Round].FeeSink,
                          block_header[hist.last.Round].RewardsPool, a)

\* the elements the consumer has received, is about to receive and will be
\* sent, in this order
InFlight ==
    cursor.recv \o cursor.results
      \o (IF cursor.pc = "select" THEN <<cursor.row>> ELSE <<>>)
      \o Elems(cursor.rows)

\* C12: a failure to read a row of the stream gives an error element, which
\* is the last element the consumer receives; a stream that stopped on a
\* read failure does not end with a plain close of the channel.
C12_ErrorIsLast ==
    /\ \A i \in 1..Len(cursor.recv) : cursor.recv[i].Error => i = Len(cursor.recv)
    /\ (cursor.done /\ cursor.failed) =>
          (cursor.recv # <<>> /\ cursor.recv[Len(cursor.recv)].Error)

\* C13: with no error and no cancellation the consumer gets exactly the
\* persisted transactions of rounds > prevRound, each once, in strictly
\* ascending (round, intra) order, then the close; nothing is lost,
\* duplicated or reordered on the way, and at most one element is buffered.
C13_InOrderDelivery ==
    (cursor.pc # "none" /\ ~cursor.failed /\ ~cursor.cancelled) =>
        LET all == InFlight
        IN /\ \A i \in 1..Len(all) : ~all[i].Error /\ all[i].row.Round > cursor.prevRound
           /\ \A j \in 1..Len(txn) :
                 txn[j].Round > cursor.prevRound =>
                     Cardinality({i \in 1..Len(all) : all[i].row = txn[j]}) = 1
           /\ \A i \in 1..Len(all) : \E j \in 1..Len(txn) : all[i].row = txn[j]
           /\ \A i \in 1..(Len(all) - 1) :
                 \/ all[i].row.Round < all[i + 1].row.Round
                 \/ /\ all[i].row.Round = all[i + 1].row.Round
                    /\ all[i].row.Intra < all[i + 1].row.Intra
           /\ Len(cursor.results) <= 1
           /\ cursor.done => (cursor.recv = all /\ cursor.closed)
           /\ cursor.closed => cursor.rows = <<>>

\* C13 witness: a stream of three or more rows that skips the rounds up to
\* prevRound was received whole and the consumer saw the close
C13_Witness ==
    /\ cursor.done
    /\ ~cursor.failed
    /\ ~cursor.cancelled
    /\ cursor.prevRound >= 0
    /\ Len(cursor.recv) >= 3
    /\ Len(cursor.recv) < Len(txn)

\* C14: when the context is cancelled while the stream is produced, the
\* channel is closed and the last element the consumer receives is an error
\* element.
C14_CancelIsError ==
    (cursor.done /\ cursor.cancelled) =>
        (cursor.recv # <<>> /\ cursor.recv[Len(cursor.recv)].Error)

\* the coordinator hands the next row of the cursor to AddTransaction
HandsRow ==
    /\ pc = "loop"
    /\ run.rows # <<>>
    /\ ~LimitReached(run, Head(run.rows))
    /\ pc' # "idle"
    /\ run' # run

\* C15: AddTransaction fails on bytes that do not decode and on every
\* transaction of a type other than pay, keyreg, acfg, axfer, afrz, and on
\* no other; a decode failure comes before the round-transition check, so
\* it commits nothing and leaves the engine and the storage as they were;
\* after the error the coordinator ends without calling Close.
C15_FatalErrors ==
    /\ [](hist.last.valid =>
            (hist.last.err <=> hist.last.stxn.Type \notin SupportedTypes))
    /\ []((pc = "failed" /\ run.err = "type") => (hist.last.valid /\ hist.last.err))
    /\ [][(HandsRow /\ ~Head(run.rows).TxnBytes.valid) =>
             /\ pc' = "failed"
             /\ run'.err = "decode"
             /\ UNCHANGED <<db, tx, accounting, call>>]_vars
    /\ [][(hist'.last.valid /\ hist'.last.err) =>
             (pc' = "failed" /\ run'.err = "type")]_vars
    /\ [][(pc = "failed" /\ run.err \in {"decode", "type"}) =>
             (pc' = "idle" /\ ~tx'.open /\ UNCHANGED db)]_vars

\* C15 witness: bytes that do not decode arrived at a round transition with
\* a pending batch, which was not committed
C15_Witness ==
    /\ pc = "failed"
    /\ run.err = "decode"
    /\ BatchAny(accounting)
    /\ run.row.Round # accounting.currentRound
    /\ ~tx.open

\* a statement of the call failed: a storage failure at some step, or a
\* destruction statement refused for its argument
StepFailed ==
    \/ call.fault
    \/ \E i \in 1..Len(call.updates.AssetDestroys) :
          ~Convertible(call.updates.AssetDestroys[i])

\* C16: when a step of CommitRoundAccounting has failed, the call returns an
\* error, storage shows none of the round's changes and no watermark change,
\* and the engine keeps its batch and its current round.
C16_StepFailure ==
    (call.caller # "none" /\ pc \in {"committed", "failed"} /\ StepFailed) =>
        /\ call.err
        /\ pc = "failed"
        /\ db = hist.pre
        /\ RoundUpdates(accounting) = call.updates
        /\ accounting.currentRound = call.round

\* the rows of table txn of the rounds after n
RowsAfter(n) == SelectSeq(txn, LAMBDA row : row.Round > n)

C18_GenesisOnce ==
    /\ run.err # "genesis"
    /\ run.act => DOMAIN GenesisAlloc \subseteq DOMAIN db.account

\* C19: when Close has returned, the batch of the last open round is
\* committed and cleared, and the default-frozen cache is empty.
C19_CloseIsFinal ==
    pc = "done" =>
        /\ call.caller = "close" /\ ~call.err
        /\ db = hist.post
        /\ ~BatchAny(accounting)
        /\ accounting.defaultFrozen = EmptyFn

\* C20: an asset-config transaction with zero parameters appends one asset
\* destruction and, beyond the fee deltas, nothing else; one with non-zero
\* parameters appends one asset-parameter upsert and caches the default-
\* frozen flag before a holding delta is built; a holding delta of +Total
\* for the sender is appended only when the target ID is 0 and Total is not
\* 0, never for a re-configuration of an existing asset.
C20_AssetConfig ==
    LET s == hist.last.stxn
        b == hist.last.before
        a == RoundUpdates(accounting)
        id == IF s.ConfigAsset = 0 THEN hist.last.c + hist.last.Intra + 1
              ELSE s.ConfigAsset
    IN (hist.last.valid /\ s.Type = "acfg") =>
        /\ ~hist.last.err
        /\ a.FreezeUpdates = b.FreezeUpdates
        /\ a.AssetCloses = b.AssetCloses
        /\ \A addr \in Addrs :
              Lookup(a.AlgoUpdates, addr, 0) - Lookup(b.AlgoUpdates, addr, 0)
                = AlgoDeltaOf(s, accounting.feeAddr, accounting.rewardAddr, addr)
        /\ IF ParamsIsZero(s.AssetParams)
           THEN /\ a.AssetDestroys = Append(b.AssetDestroys, id)
                /\ a.AcfgUpdates = b.AcfgUpdates
                /\ a.AssetUpdates = b.AssetUpdates
           ELSE /\ a.AssetDestroys = b.AssetDestroys
                /\ a.AcfgUpdates = Append(b.AcfgUpdates,
                                          [AssetId |-> id, Creator |-> s.Sender,
                                           Params |-> s.AssetParams])
                /\ id \in DOMAIN accounting.defaultFrozen
                /\ accounting.defaultFrozen[id] = s.AssetParams.DefaultFrozen
                /\ IF s.ConfigAsset = 0 /\ s.AssetParams.Total # 0
                   THEN a.AssetUpdates =
                            Append(b.AssetUpdates,
                                   [Addr |-> s.Sender, AssetId |-> id,
                                    Delta |-> s.AssetParams.Total,
                                    DefaultFrozen |-> s.AssetParams.DefaultFrozen])
                   ELSE a.AssetUpdates = b.AssetUpdates

\* C20 witness: an asset that was created with a holding for its creator is
\* re-configured with a supply and another default-frozen flag, and no
\* holding delta is appended
C20_Witness ==
    /\ pc = "engine"
    /\ hist.last.valid
    /\ hist.last.stxn.ConfigAsset = 1
    /\ hist.last.stxn.AssetParams.Total # 0
    /\ hist.last.stxn.AssetParams.DefaultFrozen
    /\ Len(accounting.AssetUpdates) = 1
    /\ accounting.AssetUpdates[1].AssetId = 1
    /\ ~accounting.AssetUpdates[1].DefaultFrozen
    /\ hist.last.before.AssetUpdates = accounting.AssetUpdates
    /\ Len(accounting.AcfgUpdates) = 2

\* C21: an asset transfer debits the holding of, and closes the holding of,
\* the effective sender (AssetSender when it is not zero, else the
\* transaction sender) and charges the fee to the transaction sender; with
\* amount 0 it appends no holding delta, with a zero close-to no closure.
C21_AssetTransfer ==
    LET s == hist.last.stxn
        b == hist.last.before
        a == RoundUpdates(accounting)
        eff == IF s.AssetSender # zeroAddr THEN s.AssetSender ELSE s.Sender
        df == Lookup(accounting.defaultFrozen, s.XferAsset, FALSE)
    IN (hist.last.valid /\ s.Type = "axfer") =>
        /\ ~hist.last.err
        /\ \A addr \in Addrs :
              Lookup(a.AlgoUpdates, addr, 0) - Lookup(b.AlgoUpdates, addr, 0)
                = AlgoDeltaOf(s, accounting.feeAddr, accounting.rewardAddr, addr)
        /\ a.AssetUpdates =
              IF s.AssetAmount = 0 THEN b.AssetUpdates
              ELSE b.AssetUpdates \o
                   <<[Addr |-> eff, AssetId |-> s.XferAsset,
                      Delta |-> -s.AssetAmount, DefaultFrozen |-> df],
                     [Addr |-> s.AssetReceiver, AssetId |-> s.XferAsset,
                      Delta |-> s.AssetAmount, DefaultFrozen |-> df]>>
        /\ a.AssetCloses =
              IF s.AssetCloseTo = zeroAddr THEN b.AssetCloses
              ELSE Append(b.AssetCloses,
                          [CloseTo |-> s.AssetCloseTo, AssetId |-> s.XferAsset,
                           Sender |-> eff])
        /\ a.AcfgUpdates = b.AcfgUpdates
        /\ a.FreezeUpdates = b.FreezeUpdates
        /\ a.AssetDestroys = b.AssetDestroys

\* C21 witness: a clawback from B sent by A, with an amount and a close-to
\* address: B's holding is debited and closed, A pays the fee
C21_Witness ==
    /\ pc = "engine"
    /\ hist.last.valid
    /\ hist.last.stxn.Type = "axfer"
    /\ hist.last.stxn.AssetSender = "B"
    /\ hist.last.stxn.AssetAmount = 1
    /\ hist.last.before = EmptyBatch
    /\ accounting.AssetUpdates[1].Addr = "B"
    /\ accounting.AssetCloses = <<[CloseTo |-> "C", AssetId |-> 1, Sender |-> "B"]>>
    /\ accounting.AlgoUpdates["A"] = -1
    /\ "B" \notin DOMAIN accounting.AlgoUpdates

\* the holding rows of t other than the row of key k
OtherRows(t, k) == [j \in (DOMAIN t.account_asset) \ {k} |-> t.account_asset[j]]

\* C22: a committed holding delta changes only the amount of an existing
\* (address, asset) row, never its frozen flag, and gives a row it creates
\* the delta's default-frozen value; a committed freeze update changes only
\* the frozen flag of an existing row, never its amount, and creates a row
\* with amount 0 when there is none; no other holding row changes.
C22_HoldingAndFreeze ==
    /\ (call.caller = "storage" /\ call.updates.AssetUpdates # <<>>) =>
          LET au == call.updates.AssetUpdates[1]
              k == <<au.Addr, au.AssetId>>
          IN /\ ~call.err
             /\ k \in DOMAIN db.account_asset
             /\ IF k \in DOMAIN hist.pre.account_asset
                THEN /\ db.account_asset[k].amount
                          = hist.pre.account_asset[k].amount + au.Delta
                     /\ db.account_asset[k].frozen = hist.pre.account_asset[k].frozen
                ELSE db.account_asset[k]
                          = [amount |-> au.Delta, frozen |-> SqlBool(au.DefaultFrozen)]
             /\ OtherRows(db, k) = OtherRows(hist.pre, k)
    /\ (call.caller = "storage" /\ call.updates.FreezeUpdates # <<>>) =>
          LET fs == call.updates.FreezeUpdates[1]
              k == <<fs.Addr, fs.AssetId>>
          IN /\ ~call.err
             /\ k \in DOMAIN db.account_asset
             /\ db.account_asset[k].frozen = SqlBool(fs.Frozen)
             /\ db.account_asset[k].amount =
                    IF k \in DOMAIN hist.pre.account_asset
                    THEN hist.pre.account_asset[k].amount ELSE 0
             /\ OtherRows(db, k) = OtherRows(hist.pre, k)

\* C22 witness: a holding delta whose default-frozen value is true was added
\* to a row that a freeze update had created with frozen false
C22_Witness ==
    /\ call.caller = "storage"
    /\ call.updates.AssetUpdates # <<>>
    /\ call.updates.AssetUpdates[1].DefaultFrozen
    /\ <<"A", 1>> \in DOMAIN hist.pre.account_asset
    /\ call.updates.AssetUpdates[1].Addr = "A"
    /\ call.updates.AssetUpdates[1].AssetId = 1
    /\ hist.pre.account_asset[<<"A", 1>>] = [amount |-> 0, frozen |-> SqlBool(FALSE)]
    /\ db.account_asset[<<"A", 1>>] = [amount |-> 2, frozen |-> SqlBool(FALSE)]

\* C23: the commit of a closure (sender A, asset X, close-to C), A holding
\* X, removes A's row for X and adds A's amount of X, and nothing else, to
\* C's row for X; A's rows for other assets and the rows of other accounts
\* are as before.
C23_ClosureFrame ==
    (call.caller = "storage" /\ call.updates.AssetCloses # <<>>) =>
        LET ac == call.updates.AssetCloses[1]
            from == <<ac.Sender, ac.AssetId>>
            to == <<ac.CloseTo, ac.AssetId>>
        IN from \in DOMAIN hist.pre.account_asset =>
              /\ ~call.err
              /\ from \notin DOMAIN db.account_asset
              /\ to \in DOMAIN db.account_asset
              /\ Amount(db, ac.CloseTo, ac.AssetId)
                    = Amount(hist.pre, ac.CloseTo, ac.AssetId)
                      + Amount(hist.pre, ac.Sender, ac.AssetId)
              /\ \A k \in (DOMAIN hist.pre.account_asset) \ {from, to} :
                    /\ k \in DOMAIN db.account_asset
                    /\ db.account_asset[k] = hist.pre.account_asset[k]
              /\ DOMAIN db.account_asset \subseteq
                    (DOMAIN hist.pre.account_asset) \cup {to}

\* the rows of table txn of round r
RowsOf(r) == SelectSeq(txn, LAMBDA row : row.Round = r)

\* the transactions of rows applied one after another: each one's deltas
\* are accumulated alone and committed before the next: [ok, t]
RECURSIVE Replay(_, _, _)
Replay(acc, t, rows) ==
    IF rows = <<>> THEN [ok |-> TRUE, t |-> t]
    ELSE LET r == addDeltas(clearBatch(acc), Head(rows).Intra, Head(rows).TxnBytes.stxn)
             c == CommitRoundAccounting(t, RoundUpdates(r.acc), acc.currentRound,
                                        acc.rewardsLevel)
         IN IF r.err \/ c.err THEN [ok |-> FALSE, t |-> t]
            ELSE Replay(r.acc, c.t, Tail(rows))

\* C24: the holdings and freeze flags that the commit of a round makes
\* visible are those of the round's transactions applied one after another
\* in intra-index order.
C24_TransactionOrder ==
    (pc = "commit" /\ hist.last.valid /\ BatchAny(call.updates)) =>
        LET seq == Replay(hist.last.ctx, hist.pre, RowsOf(call.round))
            whole == CommitRoundAccounting(hist.pre, call.updates, call.round,
                                           call.rewardsBase)
        IN (seq.ok /\ ~whole.err) =>
              /\ hist.post = whole.t
              /\ hist.post.account_asset = seq.t.account_asset

\* the sum of f over the keys in S
RECURSIVE SumOver(_, _)
SumOver(f, S) ==
    IF S = {} THEN 0
    ELSE LET a == CHOOSE x \in S : TRUE IN f[a] + SumOver(f, S \ {a})

\* the sum of the algo deltas of the pending batch
AlgoSum(acc) == SumOver(acc.AlgoUpdates, DOMAIN acc.AlgoUpdates)

\* the sum of microalgos over the rows of table account
Microalgos(t) ==
    SumOver([a \in DOMAIN t.account |-> t.account[a].microalgos], DOMAIN t.account)

\* the account rows sum to the genesis total or, before genesis, to nothing
GenesisTotal == Microalgos(db) \in {0, SumOver(GenesisAlloc, DOMAIN GenesisAlloc)}

\* C25: the algo deltas of the pending batch sum to zero after every
\* AddTransaction, failed ones included, and a successful commit leaves the
\* sum of microalgos over the account rows as it was before the commit.
C25_AlgoConservation ==
    /\ AlgoSum(accounting) = 0
    /\ pc = "commit" => AlgoSum([AlgoUpdates |-> call.updates.AlgoUpdates]) = 0
    /\ pc = "committed" => Microalgos(db) = Microalgos(hist.pre)
    /\ GenesisTotal

\* a commit has moved algos between accounts, rewards among them
C25_Witness ==
    /\ pc = "committed"
    /\ \E a \in DOMAIN call.updates.AlgoUpdates : call.updates.AlgoUpdates[a] > 1
    /\ RewardsPool \in DOMAIN db.account
    /\ RewardsPool \notin DOMAIN hist.pre.account
    /\ db.account[RewardsPool].microalgos < 0

\* a failed AddTransaction has left deltas in the pending batch
C25_WitnessFailed ==
    /\ pc = "failed"
    /\ accounting.AlgoUpdates # EmptyFn

\* C26: no step lowers the watermark: every write of it stores a value
\* greater than or equal to the value it replaces.
C26_WatermarkMonotonic == [][Watermark(db') >= Watermark(db)]_vars

\* a resumed engine has been through its first round transition and its
\* Close, and has raised a watermark above 0
C26_Witness ==
    /\ pc = "done"
    /\ ~run.genesis
    /\ run.AccountRound >= 1
    /\ Watermark(db) > run.AccountRound

\* the engine after AddTransaction of each of rows, all of the round the
\* engine is in
RECURSIVE RoundBatch(_, _)
RoundBatch(acc, rows) ==
    IF rows = <<>> THEN acc
    ELSE RoundBatch(addDeltas(acc, Head(rows).Intra, Head(rows).TxnBytes.stxn).acc,
                    Tail(rows))

\* C29: a commit that advances the watermark to round r commits the deltas
\* of every transaction persisted for round r.
C29_NoPartialRound ==
    (pc = "commit" /\ call.step = "commit" /\ ~tx.aborted
        /\ Watermark(tx.tables) > Watermark(db)) =>
        /\ hist.last.valid
        /\ call.updates =
              RoundUpdates(RoundBatch(hist.last.ctx, RowsOf(Watermark(tx.tables))))

\* C27: the ID given to an asset creation (target ID 0) is the ID of no
\* asset created before it: of none in table asset and of none configured
\* earlier in the pending batch.
C27_UniqueAssetIds ==
    LET s == hist.last.stxn
    IN (/\ hist.last.valid
        /\ ~hist.last.err
        /\ s.Type = "acfg"
        /\ s.ConfigAsset = 0
        /\ ~ParamsIsZero(s.AssetParams)) =>
           LET id == accounting.AcfgUpdates[Len(accounting.AcfgUpdates)].AssetId
               b == hist.last.before.AcfgUpdates
           IN /\ id \notin DOMAIN db.asset
              /\ \A i \in 1..Len(b) : b[i].AssetId # id

\* C28: an AddTransaction call that returns an error leaves the pending
\* batch as it was before the call.
C28_ErrorLeavesBatch ==
    (hist.last.valid /\ hist.last.err) =>
        RoundUpdates(accounting) = hist.last.before

\* C30: once started, the producer eventually leaves its loop and closes
\* the channel.
C30_ProducerTerminates == (cursor.pc \in {"next", "select"}) ~> cursor.closed

====
